---- MODULE Spec2Model ----
(***************************************************************************)
(* Model of the pixelation worker (apps/web/src/workers/pixelate.worker.ts) *)
(* and of the route component that drives it (apps/web/src/routes/         *)
(* index.tsx).  The worker is a single-threaded message loop: every        *)
(* message handler runs to completion, except handleGenerateBlobMessage,   *)
(* which suspends once at `await outCanvas.convertToBlob(...)`.            *)
(***************************************************************************)
EXTENDS Integers, Sequences, FiniteSets, TLC

\* ------------------------------------------------------------------ bounds
MaxSent == 3        \* messages the caller posts to the worker in one run
MaxQueue == 2       \* messages waiting in the worker's queue at one time
MaxNow == 2         \* largest value the millisecond clock reaches
MaxDim == 34        \* largest width, height and block size tried on
                    \* computeTilesDimension
MaxPixels == 2      \* most pixels of a tile grid handed to a colour mapper
MaxEntries == 2     \* most RGBA entries of a palette handed to a colour
                    \* mapper
MaxHexLen == 7      \* longest colour string drawn from HexAlphabet
MaxPalette == 9     \* most palette entries the shortlist pass is tried on
MaxKeys == 3        \* most entries of a fetched palette.json
MaxLab == 2         \* steps of each Lab coordinate tried on deltaE00

\* ------------------------------------------------------- program constants
RGBA_STRIDE == 4
CHANNEL_R == 0
CHANNEL_G == 1
CHANNEL_B == 2
CHANNEL_A == 3
TRANSPARENT_ALPHA == 0
K_SHORTLIST == 8
DEFAULT_BLOCK_SIZE == 16
FULLY_OPAQUE_ALPHA == 255
HEX_RADIX == 16
HEX_TRIPLET_LEN == 3
HEX_SIX_LEN == 6
HEX_BYTE_SLICE_START == 0
HEX_BYTE_SLICE_MIDDLE == 2
HEX_BYTE_SLICE_END == 4

\* Optional values: null and undefined are the empty tuple, a present value
\* v is the 1-tuple <<v>>.
Null == <<>>
Undefined == <<>>
Some(v) == <<v>>
Get(o) == o[1]

\* Source images the caller can supply (only their dimensions matter here).
Bitmaps ==
  { [name |-> "A", width |-> 32, height |-> 32],
    [name |-> "B", width |-> 5, height |-> 3] }

\* Block size, colorizeEnabled, advancedColorize and palette of the process
\* messages the protocol-level caller posts (the last three are optional in
\* PixelateProcessMessage).  <<0, 0, 0>> is shorter than one RGBA entry; 300
\* and -5 are out of byte range.  The route component is the caller that
\* posts requests with colorizeEnabled false.
Parameters ==
  { [blockSize |-> 16, colorizeEnabled |-> Undefined,
     advancedColorize |-> Undefined,
     palette |-> Some(<<300, 0, -5, 255, 0, 0, 255, 255>>)],
    [blockSize |-> 2, colorizeEnabled |-> Some(TRUE),
     advancedColorize |-> Some(FALSE),
     palette |-> Some(<<0, 0, 0, 255>>)],
    [blockSize |-> 2, colorizeEnabled |-> Some(TRUE),
     advancedColorize |-> Some(TRUE),
     palette |-> Some(<<0, 0, 0>>)],
    [blockSize |-> 16, colorizeEnabled |-> Some(TRUE),
     advancedColorize |-> Undefined,
     palette |-> Undefined] }

VARIABLES
  \* worker session state
  activeJobId, lastRenderedJobId, lastSourceBitmap, lastBlockSize,
  lastPalette, lastColorizeEnabled, lastAdvancedColorize,
  \* convertToBlob promises that have not resolved yet, in creation order,
  \* each with the blob message its continuation will post
  pendingBlobs,
  \* message channels: messages posted to the worker and not yet handled,
  \* messages posted by the worker and not yet handled by its listener
  inbox, outbox,
  \* caller: the last reading of the millisecond clock (Date.now())
  now,
  \* route component (HomeComponent) state, and whether its re-run effect
  \* has a changed dependency and has not run since
  jobId, blockSize, bitmap, result, isProcessing, colorizeEnabled,
  paletteEntries, selectedKeys, effectPending,
  \* history: number of messages posted to the worker so far, job ids of the
  \* process requests among them (in order), request numbers of the results
  \* the worker posted so far, the last result it posted
  nsent, jobIds, emitted, lastResult,
  \* last application of a pure function: its arguments and its value
  call

workerVars ==
  <<activeJobId, lastRenderedJobId, lastSourceBitmap, lastBlockSize,
    lastPalette, lastColorizeEnabled, lastAdvancedColorize>>

sessionVars ==
  <<lastRenderedJobId, lastSourceBitmap, lastBlockSize, lastPalette,
    lastColorizeEnabled, lastAdvancedColorize>>

historyVars == <<nsent, jobIds, emitted, lastResult>>

clientVars ==
  <<jobId, blockSize, bitmap, result, isProcessing, colorizeEnabled,
    paletteEntries, selectedKeys, effectPending>>

vars ==
  <<activeJobId, lastRenderedJobId, lastSourceBitmap, lastBlockSize,
    lastPalette, lastColorizeEnabled, lastAdvancedColorize, pendingBlobs,
    inbox, outbox, now, jobId, blockSize, bitmap, result, isProcessing,
    colorizeEnabled, paletteEntries, selectedKeys, effectPending, nsent,
    jobIds, emitted, lastResult, call>>

\* --------------------------------------------------------- pure functions
Max(a, b) == IF a >= b THEN a ELSE b

\* Math.ceil(n / d) for integers n and d > 0 (\div rounds toward -infinity).
Ceil(n, d) == -((-n) \div d)

\* Faulty variant: Math.floor in place of Math.ceil.
computeTilesDimensionFloor(width, height, size) ==
  [tilesX |-> Max(1, width \div size),
   tilesY |-> Max(1, height \div size)]

computeTilesDimension(width, height, size) ==
  [tilesX |-> Max(1, Ceil(width, size)),
   tilesY |-> Max(1, Ceil(height, size))]

\* The sequence s without its i-th element.
Remove(s, i) == SubSeq(s, 1, i - 1) \o SubSeq(s, i + 1, Len(s))

\* The number NaN, encoded as an integer no parseInt of two characters
\* returns.
NaN == -65536

\* new Uint8ClampedArray(palette): every element is clamped to 0..255, and
\* NaN becomes 0.
Clamp8(v) ==
  IF v = NaN THEN 0 ELSE IF v < 0 THEN 0 ELSE IF v > 255 THEN 255 ELSE v

Uint8ClampedArray(arr) == [i \in 1..Len(arr) |-> Clamp8(arr[i])]

\* Faulty variant: the mapper runs whenever colorize is enabled, with or
\* without a palette.
RenderWithoutPaletteCheck(source, size, colorize, advanced, palette) ==
  LET t == computeTilesDimension(source.width, source.height, size)
  IN [source |-> source.name,
      blockSize |-> size,
      width |-> t.tilesX,
      height |-> t.tilesY,
      mapper |-> IF ~colorize THEN "none"
                 ELSE IF advanced THEN "perceptual" ELSE "classic",
      palette |-> IF colorize THEN palette ELSE Null]

\* The pixels a render produces are a function of the source image, the tile
\* grid and the mapper that ran with its palette; the record names them.
Render(source, size, colorize, advanced, palette) ==
  LET t == computeTilesDimension(source.width, source.height, size)
      mapped == colorize /\ palette # Null /\ Len(Get(palette)) >= RGBA_STRIDE
  IN [source |-> source.name,
      blockSize |-> size,
      width |-> t.tilesX,
      height |-> t.tilesY,
      mapper |-> IF ~mapped THEN "none"
                 ELSE IF advanced THEN "perceptual" ELSE "classic",
      palette |-> IF mapped THEN palette ELSE Null]


\* ------------------------------------------------------------- messages
\* request numbers the process requests in posting order; the worker never
\* reads it.
ProcessMessage(id, bm, opt) ==
  [type |-> "process", jobId |-> id, blockSize |-> opt.blockSize,
   bitmap |-> bm,
   colorizeEnabled |-> opt.colorizeEnabled,
   advancedColorize |-> opt.advancedColorize,
   palette |-> opt.palette,
   request |-> Len(jobIds) + 1]

CancelMessage(id) == [type |-> "cancel", jobId |-> id]

GenerateBlobMessage(id) == [type |-> "generateBlob", jobId |-> id]

\* Faulty variant: outWidth and outHeight exchanged.
ResultMessageSwapped(id, bm, tiles, bs, req) ==
  [type |-> "result", jobId |-> id, bitmap |-> bm,
   meta |-> [outWidth |-> tiles.tilesY, outHeight |-> tiles.tilesX,
             tilesX |-> tiles.tilesX, tilesY |-> tiles.tilesY,
             totalPixels |-> tiles.tilesX * tiles.tilesY,
             blockSize |-> bs],
   request |-> req]

\* The result handleProcessMessage posts; request is the request number of
\* the process message it answers.
ResultMessage(id, bm, tiles, bs, req) ==
  [type |-> "result", jobId |-> id, bitmap |-> bm,
   meta |-> [outWidth |-> tiles.tilesX, outHeight |-> tiles.tilesY,
             tilesX |-> tiles.tilesX, tilesY |-> tiles.tilesY,
             totalPixels |-> tiles.tilesX * tiles.tilesY,
             blockSize |-> bs],
   request |-> req]

BlobMessage(id, blob) == [type |-> "blob", jobId |-> id, blob |-> blob]

\* ----------------------------------------------------------------- Init
Init ==
  /\ activeJobId = Null
  /\ lastRenderedJobId = Null
  /\ lastSourceBitmap = Null
  /\ lastBlockSize = Null
  /\ lastPalette = Null
  /\ lastColorizeEnabled = TRUE
  /\ lastAdvancedColorize = TRUE
  /\ pendingBlobs = <<>>
  /\ inbox = <<>>
  /\ outbox = <<>>
  /\ now = 1
  /\ jobId = 0
  /\ blockSize = DEFAULT_BLOCK_SIZE
  /\ bitmap = Null
  /\ result = Null
  /\ isProcessing = FALSE
  /\ colorizeEnabled = TRUE
  /\ paletteEntries = <<>>
  /\ selectedKeys = <<>>
  /\ effectPending = FALSE
  /\ nsent = 0
  /\ jobIds = <<>>
  /\ emitted = <<>>
  /\ lastResult = Null
  /\ call = [op |-> "none"]

\* ---------------------------------------------------------------- worker
\* Faulty variant: the result is posted twice.
PostResultTwice(res) ==
  /\ outbox' = outbox \o <<res, res>>
  /\ emitted' = emitted \o <<res.request, res.request>>
  /\ lastResult' = Some(res)

\* ctx.postMessage(result, [resultBitmap])
PostResult(res) ==
  /\ outbox' = Append(outbox, res)
  /\ emitted' = Append(emitted, res.request)
  /\ lastResult' = Some(res)

\* Faulty variant: the job is recorded as rendered before the drawing
\* surface is asked for.
handleProcessMessageMarksRendered(msg, octx) ==
  LET source == IF msg.bitmap # Undefined THEN msg.bitmap ELSE lastSourceBitmap
      colorize == IF msg.colorizeEnabled = Undefined
                  THEN TRUE ELSE Get(msg.colorizeEnabled)
      advanced == IF msg.advancedColorize = Undefined
                  THEN TRUE ELSE Get(msg.advancedColorize)
      palette == IF msg.palette # Undefined
                    /\ Len(Get(msg.palette)) >= RGBA_STRIDE
                 THEN Some(Uint8ClampedArray(Get(msg.palette))) ELSE Null
  IN /\ activeJobId' = Some(msg.jobId)
     /\ lastSourceBitmap' = source
     /\ lastBlockSize' = Some(msg.blockSize)
     /\ lastColorizeEnabled' = colorize
     /\ lastAdvancedColorize' = advanced
     /\ lastPalette' = palette
     /\ lastRenderedJobId' = IF source = Null THEN lastRenderedJobId
                             ELSE Some(msg.jobId)
     /\ IF source = Null \/ ~octx \/ activeJobId' # Some(msg.jobId)
        THEN UNCHANGED <<outbox, emitted, lastResult>>
        ELSE PostResult(ResultMessage(msg.jobId,
               Render(Get(source), msg.blockSize, colorize, advanced,
                      palette),
               computeTilesDimension(Get(source).width,
                                     Get(source).height, msg.blockSize),
               msg.blockSize, msg.request))
     /\ UNCHANGED pendingBlobs

\* Faulty variant: a flag or a palette the request omits keeps the value of
\* the request before.
handleProcessMessageInherits(msg, octx) ==
  LET source == IF msg.bitmap # Undefined THEN msg.bitmap ELSE lastSourceBitmap
      colorize == IF msg.colorizeEnabled = Undefined
                  THEN lastColorizeEnabled ELSE Get(msg.colorizeEnabled)
      advanced == IF msg.advancedColorize = Undefined
                  THEN lastAdvancedColorize ELSE Get(msg.advancedColorize)
      palette == IF msg.palette = Undefined THEN lastPalette
                 ELSE IF Len(Get(msg.palette)) >= RGBA_STRIDE
                 THEN Some(Uint8ClampedArray(Get(msg.palette))) ELSE Null
  IN /\ activeJobId' = Some(msg.jobId)
     /\ lastSourceBitmap' = source
     /\ lastBlockSize' = Some(msg.blockSize)
     /\ lastColorizeEnabled' = colorize
     /\ lastAdvancedColorize' = advanced
     /\ lastPalette' = palette
     /\ IF source = Null \/ ~octx \/ activeJobId' # Some(msg.jobId)
        THEN UNCHANGED <<lastRenderedJobId, outbox, emitted, lastResult>>
        ELSE /\ lastRenderedJobId' = Some(msg.jobId)
             /\ PostResult(ResultMessage(msg.jobId,
                  Render(Get(source), msg.blockSize, colorize, advanced,
                         palette),
                  computeTilesDimension(Get(source).width,
                                        Get(source).height, msg.blockSize),
                  msg.blockSize, msg.request))
     /\ UNCHANGED pendingBlobs

\* Faulty variant: the active marker is cleared once the result is posted.
handleProcessMessageClearsActive(msg, octx) ==
  LET source == IF msg.bitmap # Undefined THEN msg.bitmap ELSE lastSourceBitmap
      colorize == IF msg.colorizeEnabled = Undefined
                  THEN TRUE ELSE Get(msg.colorizeEnabled)
      advanced == IF msg.advancedColorize = Undefined
                  THEN TRUE ELSE Get(msg.advancedColorize)
      palette == IF msg.palette # Undefined
                    /\ Len(Get(msg.palette)) >= RGBA_STRIDE
                 THEN Some(Uint8ClampedArray(Get(msg.palette))) ELSE Null
  IN /\ activeJobId' = IF source = Null \/ ~octx THEN Some(msg.jobId) ELSE Null
     /\ lastSourceBitmap' = source
     /\ lastBlockSize' = Some(msg.blockSize)
     /\ lastColorizeEnabled' = colorize
     /\ lastAdvancedColorize' = advanced
     /\ lastPalette' = palette
     /\ IF source = Null \/ ~octx
        THEN UNCHANGED <<lastRenderedJobId, outbox, emitted, lastResult>>
        ELSE /\ lastRenderedJobId' = Some(msg.jobId)
             /\ PostResult(ResultMessage(msg.jobId,
                  Render(Get(source), msg.blockSize, colorize, advanced,
                         palette),
                  computeTilesDimension(Get(source).width,
                                        Get(source).height, msg.blockSize),
                  msg.blockSize, msg.request))
     /\ UNCHANGED pendingBlobs

\* handleProcessMessage(msg); octx tells whether out.getContext('2d')
\* returned a context.
handleProcessMessage(msg, octx) ==
  LET source == IF msg.bitmap # Undefined THEN msg.bitmap ELSE lastSourceBitmap
      colorize == IF msg.colorizeEnabled = Undefined
                  THEN TRUE ELSE Get(msg.colorizeEnabled)
      advanced == IF msg.advancedColorize = Undefined
                  THEN TRUE ELSE Get(msg.advancedColorize)
      palette == IF msg.palette # Undefined
                    /\ Len(Get(msg.palette)) >= RGBA_STRIDE
                 THEN Some(Uint8ClampedArray(Get(msg.palette))) ELSE Null
  IN /\ activeJobId' = Some(msg.jobId)
     /\ lastSourceBitmap' = source
     /\ lastBlockSize' = Some(msg.blockSize)
     /\ lastColorizeEnabled' = colorize
     /\ lastAdvancedColorize' = advanced
     /\ lastPalette' = palette
     /\ IF source = Null \/ ~octx \/ activeJobId' # Some(msg.jobId)
        THEN UNCHANGED <<lastRenderedJobId, outbox, emitted, lastResult>>
        ELSE /\ lastRenderedJobId' = Some(msg.jobId)
             /\ PostResult(ResultMessage(msg.jobId,
                  Render(Get(source), msg.blockSize, colorize, advanced,
                         palette),
                  computeTilesDimension(Get(source).width,
                                        Get(source).height, msg.blockSize),
                  msg.blockSize, msg.request))
     /\ UNCHANGED pendingBlobs

\* Faulty variant: the job id of the request is not compared with lastRenderedJobId.
handleGenerateBlobMessageAnyJob(msg, octx) ==
  /\ IF \/ lastSourceBitmap = Null
        \/ lastBlockSize = Null
        \/ ~octx
     THEN UNCHANGED pendingBlobs
     ELSE pendingBlobs' = Append(pendingBlobs,
            BlobMessage(msg.jobId,
              Render(Get(lastSourceBitmap), Get(lastBlockSize),
                     lastColorizeEnabled, lastAdvancedColorize, lastPalette)))
  /\ UNCHANGED <<workerVars, outbox, emitted, lastResult>>

\* handleGenerateBlobMessage(msg) up to its await: the render is done and
\* convertToBlob is pending.
handleGenerateBlobMessage(msg, octx) ==
  /\ IF \/ lastRenderedJobId # Some(msg.jobId)
        \/ lastSourceBitmap = Null
        \/ lastBlockSize = Null
        \/ ~octx
     THEN UNCHANGED pendingBlobs
     ELSE pendingBlobs' = Append(pendingBlobs,
            BlobMessage(msg.jobId,
              Render(Get(lastSourceBitmap), Get(lastBlockSize),
                     lastColorizeEnabled, lastAdvancedColorize, lastPalette)))
  /\ UNCHANGED <<workerVars, outbox, emitted, lastResult>>

\* Faulty variant: the active marker is cleared whatever id the message
\* names.
handleCancelMessageAnyJob(msg) ==
  /\ activeJobId' = Null
  /\ UNCHANGED <<sessionVars, pendingBlobs, outbox, emitted, lastResult>>

\* The cancel branch of ctx.onmessage.
handleCancelMessage(msg) ==
  /\ activeJobId' = IF activeJobId = Some(msg.jobId) THEN Null
                    ELSE activeJobId
  /\ UNCHANGED <<sessionVars, pendingBlobs, outbox, emitted, lastResult>>

\* ctx.onmessage: the worker takes the next message posted to it.
Pending(type) == inbox # <<>> /\ Head(inbox).type = type

OnProcess ==
  /\ Pending("process")
  /\ inbox' = Tail(inbox)
  /\ \E octx \in BOOLEAN : handleProcessMessage(Head(inbox), octx)
  /\ UNCHANGED <<now, clientVars, nsent, jobIds, call>>

OnCancel ==
  /\ Pending("cancel")
  /\ inbox' = Tail(inbox)
  /\ handleCancelMessage(Head(inbox))
  /\ UNCHANGED <<now, clientVars, nsent, jobIds, call>>

OnGenerateBlob ==
  /\ Pending("generateBlob")
  /\ inbox' = Tail(inbox)
  /\ \E octx \in BOOLEAN : handleGenerateBlobMessage(Head(inbox), octx)
  /\ UNCHANGED <<now, clientVars, nsent, jobIds, call>>

\* The continuation of handleGenerateBlobMessage after its await: a pending
\* convertToBlob resolves and the blob message is posted.
BlobReady ==
  \E i \in 1..Len(pendingBlobs) :
    /\ pendingBlobs' = Remove(pendingBlobs, i)
    /\ outbox' = Append(outbox, pendingBlobs[i])
    /\ UNCHANGED <<workerVars, inbox, now, clientVars, nsent, jobIds, emitted,
                   lastResult, call>>

\* ---------------------------------------------------------------- caller
\* Date.now(): a reading of the millisecond clock is never smaller than the
\* previous reading (now), and equals it when no millisecond has passed.
DateNow == now..MaxNow

\* Job ids a caller can name: the clock readings up to the last one.
KnownIds == 1..now

\* The run is cut off after MaxSent messages, with at most MaxQueue waiting.
CanPost == nsent < MaxSent /\ Len(inbox) < MaxQueue

\* A caller of the message protocol posts process{...} with a fresh reading
\* of the clock as job id.
SendProcess ==
  \E bm \in {Some(b) : b \in Bitmaps} \cup {Undefined}, opt \in Parameters,
     t \in DateNow :
    /\ CanPost
    /\ now' = t
    /\ inbox' = Append(inbox, ProcessMessage(t, bm, opt))
    /\ nsent' = nsent + 1
    /\ jobIds' = Append(jobIds, t)
    /\ UNCHANGED <<workerVars, pendingBlobs, outbox, clientVars, emitted,
                   lastResult, call>>

SendCancel ==
  \E id \in KnownIds :
    /\ CanPost
    /\ inbox' = Append(inbox, CancelMessage(id))
    /\ nsent' = nsent + 1
    /\ UNCHANGED <<workerVars, pendingBlobs, outbox, now, clientVars, jobIds,
                   emitted, lastResult, call>>

SendGenerateBlob ==
  \E id \in KnownIds :
    /\ CanPost
    /\ inbox' = Append(inbox, GenerateBlobMessage(id))
    /\ nsent' = nsent + 1
    /\ UNCHANGED <<workerVars, pendingBlobs, outbox, now, clientVars, jobIds,
                   emitted, lastResult, call>>

Next ==
  \/ OnProcess
  \/ OnCancel
  \/ OnGenerateBlob
  \/ BlobReady
  \/ SendProcess
  \/ SendCancel
  \/ SendGenerateBlob

Spec == Init /\ [][Next]_vars

\* ------------------------------------------------------ colour strings
\* A string is the sequence of its characters.
TRANSPARENT_RGBA == <<0, 0, 0, 0>>

Transparent == <<"t", "r", "a", "n", "s", "p", "a", "r", "e", "n", "t">>

WhiteSpace == {" "}

HexDigits ==
  <<"0", "1", "2", "3", "4", "5", "6", "7", "8", "9",
    "a", "b", "c", "d", "e", "f">>

\* String.prototype.toLowerCase, on the letters the strings below contain.
LowerCase(c) ==
  CASE c = "A" -> "a" [] c = "F" -> "f" [] c = "T" -> "t" [] c = "X" -> "x"
    [] OTHER -> c

toLowerCase(str) == [i \in 1..Len(str) |-> LowerCase(str[i])]

RECURSIVE TrimStart(_)
TrimStart(str) ==
  IF str # <<>> /\ Head(str) \in WhiteSpace THEN TrimStart(Tail(str)) ELSE str

RECURSIVE TrimEnd(_)
TrimEnd(str) ==
  IF str # <<>> /\ str[Len(str)] \in WhiteSpace
  THEN TrimEnd(SubSeq(str, 1, Len(str) - 1)) ELSE str

\* String.prototype.trim
trim(str) == TrimEnd(TrimStart(str))

IsHexDigit(c) == \E v \in 1..Len(HexDigits) : HexDigits[v] = LowerCase(c)

DigitValue(c) ==
  (CHOOSE v \in 1..Len(HexDigits) : HexDigits[v] = LowerCase(c)) - 1

\* The longest prefix of str made of digits of radix 16.
RECURSIVE LeadingDigits(_)
LeadingDigits(str) ==
  IF str # <<>> /\ IsHexDigit(Head(str))
  THEN <<Head(str)>> \o LeadingDigits(Tail(str)) ELSE <<>>

\* Faulty variant: only the last digit counts.
DigitsValueLastDigit(digits, acc) ==
  IF digits = <<>> THEN acc ELSE DigitValue(digits[Len(digits)])

\* The number the digits denote, after the digits that denote acc.
RECURSIVE DigitsValue(_, _)
DigitsValue(digits, acc) ==
  IF digits = <<>> THEN acc
  ELSE DigitsValue(Tail(digits), acc * HEX_RADIX + DigitValue(Head(digits)))

\* Number.parseInt(str, HEX_RADIX): leading white space, a sign and a 0x
\* prefix are skipped, the digits that follow are read up to the first
\* character that is none, and the value is NaN when there is no digit.
parseInt(str) ==
  LET s == TrimStart(str)
      signed == s # <<>> /\ Head(s) \in {"+", "-"}
      unsigned == IF signed THEN Tail(s) ELSE s
      prefixed == Len(unsigned) >= 2 /\ unsigned[1] = "0"
                    /\ unsigned[2] \in {"x", "X"}
      body == IF prefixed THEN SubSeq(unsigned, 3, Len(unsigned))
              ELSE unsigned
      digits == LeadingDigits(body)
  IN IF digits = <<>> THEN NaN
     ELSE IF signed /\ Head(s) = "-" THEN 0 - DigitsValue(digits, 0)
     ELSE DigitsValue(digits, 0)

\* str.slice(from, to) for 0 <= from <= to <= str.length.
Slice(str, from, to) == SubSeq(str, from + 1, to)

hexToRgbaComponents(hex) ==
  LET lower == toLowerCase(hex)
      t == trim(hex)
      h == IF t # <<>> /\ Head(t) = "#" THEN Tail(t) ELSE t
  IN IF lower = Transparent THEN Some(TRANSPARENT_RGBA)
     ELSE IF Len(h) = HEX_TRIPLET_LEN
     THEN Some(<<parseInt(<<h[1], h[1]>>), parseInt(<<h[2], h[2]>>),
                 parseInt(<<h[3], h[3]>>), FULLY_OPAQUE_ALPHA>>)
     ELSE IF Len(h) = HEX_SIX_LEN
     THEN Some(<<parseInt(Slice(h, HEX_BYTE_SLICE_START, 2)),
                 parseInt(Slice(h, HEX_BYTE_SLICE_MIDDLE, HEX_BYTE_SLICE_END)),
                 parseInt(Slice(h, HEX_BYTE_SLICE_END, HEX_SIX_LEN)),
                 FULLY_OPAQUE_ALPHA>>)
     ELSE Null

\* ------------------------------------------------------- route component
\* The palette the component loads: key, colour string and tier.  "#000" is
\* opaque black; "#12" has neither three nor six characters after the #.
LoadedPalette ==
  << [key |-> "k1", hex |-> <<"#", "0", "0", "0">>, isPremium |-> FALSE],
     [key |-> "k2", hex |-> <<"#", "1", "2">>, isPremium |-> TRUE] >>

\* Faulty variant: the slider commits values outside min..max.
SliderValuesOutOfRange == {0, 33}

\* Values the block-size slider commits: its min and its max.
SliderValues == {1, 32}

Keys(entries) == {entries[i].key : i \in 1..Len(entries)}

\* The useMemo selectedPaletteArray: the RGBA quadruples of the selected
\* entries with a usable colour, in palette order.
RECURSIVE FlattenSelected(_, _)
FlattenSelected(entries, selected) ==
  IF entries = <<>> THEN <<>>
  ELSE LET e == Head(entries)
           rest == FlattenSelected(Tail(entries), selected)
           rgba == hexToRgbaComponents(e.hex)
       IN IF e.key \in selected /\ rgba # Null
          THEN Get(rgba) \o rest ELSE rest

\* The elements of an array, as new Set(array) holds them.
Range(arr) == {arr[i] : i \in 1..Len(arr)}

\* entries.map((e) => e.key)
KeysOf(entries) == [i \in 1..Len(entries) |-> entries[i].key]

\* The value of the useMemo for the given paletteEntries and selectedKeys:
\* a trailing partial quadruple is cut off.
selectedPaletteArrayOf(entries, keys) ==
  LET out == FlattenSelected(entries, Range(keys))
  IN IF Len(out) % RGBA_STRIDE # 0
     THEN SubSeq(out, 1, Len(out) - (Len(out) % RGBA_STRIDE))
     ELSE out

selectedPaletteArray == selectedPaletteArrayOf(paletteEntries, selectedKeys)

\* The controls that are disabled while the first job is being processed.
disabled == isProcessing /\ result = Null

\* startProcess(newBlockSize, source, includeBitmap); t is the value
\* Date.now() returns.
startProcess(newBlockSize, source, includeBitmap, t) ==
  /\ CanPost
  /\ now' = t
  /\ jobId' = t
  /\ isProcessing' = TRUE
  /\ inbox' = Append(inbox,
       [type |-> "process", jobId |-> t, blockSize |-> newBlockSize,
        bitmap |-> IF includeBitmap THEN Some(source) ELSE Undefined,
        colorizeEnabled |->
          Some(colorizeEnabled /\ Len(selectedPaletteArray) >= RGBA_STRIDE),
        advancedColorize |-> Undefined,
        palette |-> Some(selectedPaletteArray),
        request |-> Len(jobIds) + 1])
  /\ nsent' = nsent + 1
  /\ jobIds' = Append(jobIds, t)

\* The palette fetched at mount arrives: every key is selected.
LoadPalette ==
  /\ paletteEntries = <<>>
  /\ paletteEntries' = LoadedPalette
  /\ selectedKeys' = KeysOf(LoadedPalette)
  /\ effectPending' = TRUE
  /\ UNCHANGED <<workerVars, pendingBlobs, inbox, outbox, now, jobId,
                 blockSize, bitmap, result, isProcessing, colorizeEnabled,
                 historyVars, call>>

\* handleFile(file), once the file is decoded.
handleFile ==
  \E bm \in Bitmaps, t \in DateNow :
    /\ ~disabled
    /\ ~effectPending
    /\ bitmap' = Some(bm)
    /\ startProcess(blockSize, bm, TRUE, t)
    /\ effectPending' = TRUE
    /\ UNCHANGED <<workerVars, pendingBlobs, outbox, blockSize, result,
                   colorizeEnabled, paletteEntries, selectedKeys, emitted,
                   lastResult, call>>

\* handleBlockSizeChange(v)
handleBlockSizeChange ==
  \E v \in SliderValues :
    /\ ~disabled
    /\ ~effectPending
    /\ blockSize' = v
    /\ effectPending' = (v # blockSize)
    /\ IF bitmap = Null
       THEN UNCHANGED <<now, jobId, isProcessing, inbox, nsent, jobIds>>
       ELSE \E t \in DateNow : startProcess(v, Get(bitmap), FALSE, t)
    /\ UNCHANGED <<workerVars, pendingBlobs, outbox, bitmap, result,
                   colorizeEnabled, paletteEntries, selectedKeys, emitted,
                   lastResult, call>>

\* onToggleColorize
onToggleColorize ==
  /\ ~effectPending
  /\ colorizeEnabled' = ~colorizeEnabled
  /\ effectPending' = TRUE
  /\ UNCHANGED <<workerVars, pendingBlobs, inbox, outbox, now, jobId,
                 blockSize, bitmap, result, isProcessing, paletteEntries,
                 selectedKeys, historyVars, call>>

\* onToggleKey(k)
onToggleKey ==
  \E k \in Keys(paletteEntries) :
    /\ ~effectPending
    /\ selectedKeys' = IF k \in Range(selectedKeys)
                       THEN SelectSeq(selectedKeys, LAMBDA x : x # k)
                       ELSE Append(selectedKeys, k)
    /\ effectPending' = TRUE
    /\ UNCHANGED <<workerVars, pendingBlobs, inbox, outbox, now, jobId,
                   blockSize, bitmap, result, isProcessing, colorizeEnabled,
                   paletteEntries, historyVars, call>>

\* onSelectAll(premium): premium is TRUE, FALSE or "all" (here <<>>).
onSelectAll ==
  \E premium \in {Some(TRUE), Some(FALSE), <<>>} :
    /\ ~effectPending
    /\ paletteEntries # <<>>
    /\ selectedKeys' =
         KeysOf(SelectSeq(paletteEntries,
                          LAMBDA e : premium = <<>>
                                       \/ e.isPremium = Get(premium)))
    /\ effectPending' = TRUE
    /\ UNCHANGED <<workerVars, pendingBlobs, inbox, outbox, now, jobId,
                   blockSize, bitmap, result, isProcessing, colorizeEnabled,
                   paletteEntries, historyVars, call>>

\* onDownload
onDownload ==
  /\ ~disabled
  /\ ~effectPending
  /\ result # Null
  /\ CanPost
  /\ inbox' = Append(inbox, GenerateBlobMessage(jobId))
  /\ nsent' = nsent + 1
  /\ UNCHANGED <<workerVars, pendingBlobs, outbox, now, clientVars, jobIds,
                 emitted, lastResult, call>>

\* The effect "Re-run when palette settings change", run after a render in
\* which bitmap, result, blockSize or startProcess changed.
RerunEffect ==
  /\ effectPending
  /\ effectPending' = FALSE
  /\ IF bitmap # Null /\ result # Null
     THEN \E t \in DateNow : startProcess(blockSize, Get(bitmap), FALSE, t)
     ELSE UNCHANGED <<now, jobId, isProcessing, inbox, nsent, jobIds>>
  /\ UNCHANGED <<workerVars, pendingBlobs, outbox, blockSize, bitmap, result,
                 colorizeEnabled, paletteEntries, selectedKeys, emitted,
                 lastResult, call>>

\* Faulty variant: the listener is handed the newest message first.
handleNewestFirst ==
  /\ outbox # <<>>
  /\ outbox' = SubSeq(outbox, 1, Len(outbox) - 1)
  /\ IF outbox[Len(outbox)].type = "result"
     THEN /\ result' = Some([bitmap |-> outbox[Len(outbox)].bitmap,
                             meta |-> outbox[Len(outbox)].meta])
          /\ isProcessing' = FALSE
          /\ effectPending' = TRUE
     ELSE UNCHANGED <<result, isProcessing, effectPending>>
  /\ UNCHANGED <<workerVars, pendingBlobs, inbox, now, jobId, blockSize,
                 bitmap, colorizeEnabled, paletteEntries, selectedKeys,
                 historyVars, call>>

\* handle: the component's listener for the worker's messages.
handle ==
  /\ outbox # <<>>
  /\ outbox' = Tail(outbox)
  /\ IF Head(outbox).type = "result"
     THEN /\ result' = Some([bitmap |-> Head(outbox).bitmap,
                             meta |-> Head(outbox).meta])
          /\ isProcessing' = FALSE
          /\ effectPending' = TRUE
     ELSE UNCHANGED <<result, isProcessing, effectPending>>
  /\ UNCHANGED <<workerVars, pendingBlobs, inbox, now, jobId, blockSize,
                 bitmap, colorizeEnabled, paletteEntries, selectedKeys,
                 historyVars, call>>

ClientNext ==
  \/ LoadPalette
  \/ handleFile
  \/ handleBlockSizeChange
  \/ onToggleColorize
  \/ onToggleKey
  \/ onSelectAll
  \/ onDownload
  \/ RerunEffect
  \/ handle
  \/ OnProcess
  \/ OnGenerateBlob
  \/ BlobReady

ClientSpec == Init /\ [][ClientNext]_vars

\* ------------------------------------------- computeTilesDimension alone
\* The worker is idle; the arguments are any positive integers up to MaxDim.
TilesInit ==
  /\ activeJobId = Null
  /\ lastRenderedJobId = Null
  /\ lastSourceBitmap = Null
  /\ lastBlockSize = Null
  /\ lastPalette = Null
  /\ lastColorizeEnabled = TRUE
  /\ lastAdvancedColorize = TRUE
  /\ pendingBlobs = <<>>
  /\ inbox = <<>>
  /\ outbox = <<>>
  /\ now = 1
  /\ jobId = 0
  /\ blockSize = DEFAULT_BLOCK_SIZE
  /\ bitmap = Null
  /\ result = Null
  /\ isProcessing = FALSE
  /\ colorizeEnabled = TRUE
  /\ paletteEntries = <<>>
  /\ selectedKeys = <<>>
  /\ effectPending = FALSE
  /\ nsent = 0
  /\ jobIds = <<>>
  /\ emitted = <<>>
  /\ lastResult = Null
  /\ \E width \in 1..MaxDim, height \in 1..MaxDim, size \in 1..MaxDim :
       call = [op |-> "arguments", width |-> width, height |-> height,
               blockSize |-> size, value |-> Null]

ApplyComputeTilesDimension ==
  /\ call.op = "arguments"
  /\ call' = [call EXCEPT !.op = "computeTilesDimension",
                !.value = Some(computeTilesDimension(call.width, call.height,
                                                     call.blockSize))]
  /\ UNCHANGED <<workerVars, pendingBlobs, inbox, outbox, now, clientVars,
                 historyVars>>

TilesNext == ApplyComputeTilesDimension

TilesSpec == TilesInit /\ [][TilesNext]_vars

\* ------------------------------------------------------- colour mapping
\* Every variable but call at its initial value: the pure functions below
\* are applied outside any session.
Idle ==
  /\ activeJobId = Null
  /\ lastRenderedJobId = Null
  /\ lastSourceBitmap = Null
  /\ lastBlockSize = Null
  /\ lastPalette = Null
  /\ lastColorizeEnabled = TRUE
  /\ lastAdvancedColorize = TRUE
  /\ pendingBlobs = <<>>
  /\ inbox = <<>>
  /\ outbox = <<>>
  /\ now = 1
  /\ jobId = 0
  /\ blockSize = DEFAULT_BLOCK_SIZE
  /\ bitmap = Null
  /\ result = Null
  /\ isProcessing = FALSE
  /\ colorizeEnabled = TRUE
  /\ paletteEntries = <<>>
  /\ selectedKeys = <<>>
  /\ effectPending = FALSE
  /\ nsent = 0
  /\ jobIds = <<>>
  /\ emitted = <<>>
  /\ lastResult = Null

\* arr[i] of a JavaScript array (indices from 0).
At(arr, i) == arr[i + 1]

\* Number.POSITIVE_INFINITY; a finite number v is Some(v).
POSITIVE_INFINITY == <<>>

\* RGBA quadruples of tile-grid pixels: opaque black, a half-transparent
\* colour midway between two palette colours, and a fully transparent pixel
\* that still carries a colour.
PixelColours == { <<0, 0, 0, 255>>, <<1, 0, 0, 128>>, <<1, 0, 0, 0>> }

\* RGBA quadruples of palette entries: opaque black, opaque dark red and the
\* transparent entry (0, 0, 0, 0).
PaletteColours == { <<0, 0, 0, 255>>, <<2, 0, 0, 255>>, <<0, 0, 0, 0>> }

RECURSIVE Flatten(_)
Flatten(quads) ==
  IF quads = <<>> THEN <<>> ELSE Head(quads) \o Flatten(Tail(quads))

\* ImageData.data of the tile grids, and the palettes (whole RGBA entries,
\* possibly none), the mappers are tried on.
Images ==
  {Flatten(q) : q \in UNION {[1..n -> PixelColours] : n \in 1..MaxPixels}}

Palettes ==
  {Flatten(q) : q \in UNION {[1..n -> PaletteColours] : n \in 0..MaxEntries}}

\* Offsets of the pixels of d, and of the entries of a palette
\* (i += RGBA_STRIDE, p += RGBA_STRIDE).
Offsets(arr) == {i \in 0..(Len(arr) - 1) : i % RGBA_STRIDE = 0}

\* Faulty variant: no pixel is taken as transparent.
IsTransparentNever(a8) == FALSE

\* a8 === TRANSPARENT_ALPHA
IsTransparent(a8) == a8 = TRANSPARENT_ALPHA

\* Faulty variant: an entry at equal distance replaces the best so far.
CloserOrEqual(dist, bestDist) ==
  bestDist = POSITIVE_INFINITY \/ dist <= Get(bestDist)

\* Faulty variant: the entry farther away replaces the best so far.
Farther(dist, bestDist) ==
  bestDist = POSITIVE_INFINITY \/ dist > Get(bestDist)

\* dist < bestDist, cost < bestCost
Closer(dist, bestDist) ==
  bestDist = POSITIVE_INFINITY \/ dist < Get(bestDist)

\* The inner loop of mapImageDataToPaletteClassic from offset p on: the
\* value of bestIndex when it ends.
RECURSIVE ClassicScan(_, _, _, _, _, _, _)
ClassicScan(palette, r, g, b, p, bestIndex, bestDist) ==
  IF p >= Len(palette) THEN bestIndex
  ELSE LET dr == At(palette, p + CHANNEL_R) - r
           dg == At(palette, p + CHANNEL_G) - g
           db == At(palette, p + CHANNEL_B) - b
           dist == dr * dr + dg * dg + db * db
       IN IF Closer(dist, bestDist)
          THEN ClassicScan(palette, r, g, b, p + RGBA_STRIDE, p, Some(dist))
          ELSE ClassicScan(palette, r, g, b, p + RGBA_STRIDE, bestIndex,
                           bestDist)

\* The buffer d after mapImageDataToPaletteClassic(img, palette).  A pixel
\* is read before it is written and no other pixel is read for it, so the
\* loop over the pixels is an element-wise map.
mapImageDataToPaletteClassic(d, palette) ==
  IF Len(palette) < RGBA_STRIDE THEN d
  ELSE [j \in 1..Len(d) |->
         LET i == ((j - 1) \div RGBA_STRIDE) * RGBA_STRIDE
             channel == (j - 1) % RGBA_STRIDE
             bestIndex == ClassicScan(palette, At(d, i + CHANNEL_R),
                                      At(d, i + CHANNEL_G),
                                      At(d, i + CHANNEL_B), 0, 0,
                                      POSITIVE_INFINITY)
         IN IF IsTransparent(At(d, i + CHANNEL_A)) THEN d[j]
            ELSE At(palette, bestIndex + channel)]

\* ---- perceptual mapper
\* Numbers are counted in units of half the spacing of the single-precision
\* numbers around them, so that a double is an integer and a float32 is an
\* even integer.  Storing x in a Float32Array rounds it to the nearest
\* float32, ties to the one with an even significand.
Fround(x) ==
  IF x % 2 = 0 THEN x
  ELSE IF (x + 1) % 4 = 0 THEN x + 1 ELSE x - 1

\* Storing v in an Int16Array keeps its low 16 bits, as a signed number.
Int16(v) == ((v + 32768) % 65536) - 32768

\* x < y for numbers that may be POSITIVE_INFINITY.
LessThan(x, y) ==
  /\ x # POSITIVE_INFINITY
  /\ y = POSITIVE_INFINITY \/ Get(x) < Get(y)

\* What the Lab arithmetic yields for one pixel and one palette entry: the
\* raw distance deltaE00 returns (base) and the four context terms of the
\* adjusted cost.  The model draws them for every pixel; it does not compute
\* them from the colours.  The first two records are entries whose raw
\* distances differ by less than the float32 spacing, the third is the entry
\* nearest by raw distance and dearest after the penalties.
LabValues ==
  { [base |-> 5, Lpen |-> 0, Cpen |-> 0, Hpen |-> 0, neutralBias |-> 0],
    [base |-> 4, Lpen |-> 0, Cpen |-> 0, Hpen |-> 0, neutralBias |-> 0],
    [base |-> 0, Lpen |-> 3, Cpen |-> 1, Hpen |-> 1, neutralBias |-> 1] }

\* topIdx and topScore after their initialisation.
EmptyShortlist ==
  [idx |-> [k \in 1..K_SHORTLIST |-> -1],
   score |-> [k \in 1..K_SHORTLIST |-> POSITIVE_INFINITY]]

\* The search for the worst shortlisted score from slot k on: the value of
\* worstK when it ends.
RECURSIVE WorstSlot(_, _, _, _)
WorstSlot(topScore, k, worstK, worstVal) ==
  IF k >= K_SHORTLIST THEN worstK
  ELSE IF LessThan(worstVal, At(topScore, k))
       THEN WorstSlot(topScore, k + 1, k, At(topScore, k))
       ELSE WorstSlot(topScore, k + 1, worstK, worstVal)

\* Faulty variant: the entry takes the first slot, whichever is the worst.
InsertFirst(top, pi, base) ==
  [idx |-> [top.idx EXCEPT ![1] = Int16(pi)],
   score |-> [top.score EXCEPT ![1] = Some(Fround(base))]]

\* One turn of the shortlist loop: the entry pi at raw distance base
\* replaces the worst shortlisted entry if it is better.
Insert(top, pi, base) ==
  LET worstK == WorstSlot(top.score, 0, 0, Some(-1))
      worstVal == At(top.score, worstK)
  IN IF LessThan(Some(base), worstVal)
     THEN [idx |-> [top.idx EXCEPT ![worstK + 1] = Int16(pi)],
           score |-> [top.score EXCEPT ![worstK + 1] = Some(Fround(base))]]
     ELSE top

\* First pass from entry pi on; base[pi + 1] is the raw distance of entry
\* pi.
RECURSIVE ShortlistPass(_, _, _)
ShortlistPass(base, pi, top) ==
  IF pi >= Len(base) THEN top
  ELSE ShortlistPass(base, pi + 1, Insert(top, pi, At(base, pi)))

\* cost = base + Lpen + Cpen + Hpen + neutralBias, base being the
\* shortlisted (stored) score.
Cost(score, lab) ==
  score + lab.Lpen + lab.Cpen + lab.Hpen + lab.neutralBias

\* Second pass from slot k on: the value of bestPi when it ends.
RECURSIVE RefinePass(_, _, _, _, _)
RefinePass(top, labs, k, bestPi, bestCost) ==
  IF k >= K_SHORTLIST THEN bestPi
  ELSE LET pi == At(top.idx, k)
       IN IF pi < 0 THEN RefinePass(top, labs, k + 1, bestPi, bestCost)
          ELSE LET cost == Cost(Get(At(top.score, k)), At(labs, pi))
               IN IF Closer(cost, bestCost)
                  THEN RefinePass(top, labs, k + 1, pi, Some(cost))
                  ELSE RefinePass(top, labs, k + 1, bestPi, bestCost)

\* The palette index written to a pixel whose shortlist is top.
BestEntry(top, labs) ==
  RefinePass(top, labs, 0, IF At(top.idx, 0) >= 0 THEN At(top.idx, 0) ELSE 0,
             POSITIVE_INFINITY)

\* Faulty variant: the alpha channel of the pixel is kept.
WritePixelKeepsAlpha(d, i, palette, bestPi) ==
  [j \in 1..Len(d) |->
     IF j - 1 >= i /\ j - 1 < i + CHANNEL_A
     THEN At(palette, bestPi * RGBA_STRIDE + (j - 1 - i))
     ELSE d[j]]

\* d after the four channels of palette entry bestPi are written at
\* offset i.
WritePixel(d, i, palette, bestPi) ==
  [j \in 1..Len(d) |->
     IF j - 1 >= i /\ j - 1 < i + RGBA_STRIDE
     THEN At(palette, bestPi * RGBA_STRIDE + (j - 1 - i))
     ELSE d[j]]

\* ---- the two mappers applied to a tile grid and a palette
\* d is the buffer at the call, out the buffer as it is now, idx the next
\* pixel of the main mapping loop of mapImageDataToPalette; labs, top and
\* bestPi are those of the last pixel it mapped.
MapperInit ==
  /\ Idle
  /\ \E d \in Images, palette \in Palettes :
       call = [op |-> "arguments", d |-> d, palette |-> palette, out |-> d,
               idx |-> 0, labs |-> <<>>, top |-> EmptyShortlist,
               bestPi |-> 0, value |-> Null]

ApplyMapImageDataToPaletteClassic ==
  /\ call.op = "arguments"
  /\ \E out \in {mapImageDataToPaletteClassic(call.d, call.palette)} :
       call' = [call EXCEPT !.op = "mapImageDataToPaletteClassic",
                  !.out = out, !.value = Some(out)]
  /\ UNCHANGED <<workerVars, pendingBlobs, inbox, outbox, now, clientVars,
                 historyVars>>

\* mapImageDataToPaletteClassic is called again on the buffer it has mapped,
\* with the same palette; out is the buffer after the first call.
ReapplyMapImageDataToPaletteClassic ==
  /\ call.op = "mapImageDataToPaletteClassic"
  /\ \E again \in {mapImageDataToPaletteClassic(call.out, call.palette)} :
       call' = [call EXCEPT !.op = "mapImageDataToPaletteClassic twice",
                  !.value = Some(again)]
  /\ UNCHANGED <<workerVars, pendingBlobs, inbox, outbox, now, clientVars,
                 historyVars>>

\* One turn of the main mapping loop of mapImageDataToPalette.
MainMapping ==
  /\ call.op \in {"arguments", "main mapping"}
  /\ Len(call.palette) >= RGBA_STRIDE
  /\ call.idx < Len(call.d) \div RGBA_STRIDE
  /\ LET i == call.idx * RGBA_STRIDE
     IN IF IsTransparent(At(call.out, i + CHANNEL_A))
        THEN call' = [call EXCEPT !.op = "main mapping", !.idx = @ + 1,
                        !.labs = <<>>, !.top = EmptyShortlist, !.bestPi = 0]
        ELSE \E labs \in [1..(Len(call.palette) \div RGBA_STRIDE)
                            -> LabValues] :
             \E top \in {ShortlistPass([pi \in 1..Len(labs) |->
                                          labs[pi].base], 0, EmptyShortlist)} :
             \E bestPi \in {BestEntry(top, labs)} :
               call' = [call EXCEPT !.op = "main mapping", !.idx = @ + 1,
                          !.labs = labs, !.top = top, !.bestPi = bestPi,
                          !.out = WritePixel(@, i, call.palette, bestPi)]
  /\ UNCHANGED <<workerVars, pendingBlobs, inbox, outbox, now, clientVars,
                 historyVars>>

\* mapImageDataToPalette returns: at once when the palette holds no whole
\* entry, else after the last pixel.
ReturnMapImageDataToPalette ==
  /\ call.op \in {"arguments", "main mapping"}
  /\ \/ Len(call.palette) < RGBA_STRIDE
     \/ call.idx = Len(call.d) \div RGBA_STRIDE
  /\ call' = [call EXCEPT !.op = "mapImageDataToPalette",
                !.value = Some(call.out)]
  /\ UNCHANGED <<workerVars, pendingBlobs, inbox, outbox, now, clientVars,
                 historyVars>>

MapperNext ==
  \/ ApplyMapImageDataToPaletteClassic
  \/ ReapplyMapImageDataToPaletteClassic
  \/ MainMapping
  \/ ReturnMapImageDataToPalette

MapperSpec == MapperInit /\ [][MapperNext]_vars

\* ---- hexToRgbaComponents applied to a colour string
HexAlphabet == {"#", "1", "f", "z"}

\* Colour strings with white space, capitals, signs and 0x prefixes.
OtherStrings ==
  { Transparent,
    <<"T", "r", "a", "n", "s", "p", "a", "r", "e", "n", "t">>,
    <<" ", "t", "r", "a", "n", "s", "p", "a", "r", "e", "n", "t">>,
    <<"f", "0", "0">>,
    <<"#", "0", "0", "0">>,
    <<" ", "F", "0", "0", " ">>,
    <<"#", "1", "2", "A", "b", "f", "F">>,
    <<"f", " ", "f">>,
    <<"-", "1", "-", "1", "-", "1">>,
    <<"0", "x", "0", "X", "0", "x">>,
    <<"r", "e", "d">> }

HexStrings ==
  UNION {[1..n -> HexAlphabet] : n \in 0..MaxHexLen} \cup OtherStrings

\* palette is the flattened palette of a component whose only entry has
\* this colour string and is selected.
HexInit ==
  /\ Idle
  /\ \E hex \in HexStrings :
       call = [op |-> "arguments", hex |-> hex, value |-> Null,
               palette |-> <<>>]

ApplyHexToRgbaComponents ==
  /\ call.op = "arguments"
  /\ call' = [call EXCEPT !.op = "hexToRgbaComponents",
                !.value = hexToRgbaComponents(call.hex),
                !.palette = FlattenSelected(
                              <<[key |-> "k", hex |-> call.hex,
                                 isPremium |-> FALSE]>>, {"k"})]
  /\ UNCHANGED <<workerVars, pendingBlobs, inbox, outbox, now, clientVars,
                 historyVars>>

HexNext == ApplyHexToRgbaComponents

HexSpec == HexInit /\ [][HexNext]_vars

\* ---- the shortlist pass applied to the raw distances of a palette
\* Raw distances of a pixel to the entries of a palette: 0, and two
\* distances that differ by less than the float32 spacing.
Scores == {0, 4, 5}

ShortlistInit ==
  /\ Idle
  /\ \E n \in 0..MaxPalette :
       \E base \in [1..n -> Scores] :
         call = [op |-> "arguments", base |-> base, top |-> EmptyShortlist]

ApplyShortlistPass ==
  /\ call.op = "arguments"
  /\ call' = [call EXCEPT !.op = "shortlist",
                !.top = ShortlistPass(call.base, 0, EmptyShortlist)]
  /\ UNCHANGED <<workerVars, pendingBlobs, inbox, outbox, now, clientVars,
                 historyVars>>

ShortlistNext == ApplyShortlistPass

ShortlistSpec == ShortlistInit /\ [][ShortlistNext]_vars

\* ---- the palette selection of the route component
\* Colour strings of palette.json: opaque black, opaque white, the
\* transparent entry, one of two digits and one of three letters that are
\* no digits.
PaletteHexes ==
  { <<"#", "0", "0", "0">>, <<"f", "f", "f">>, Transparent,
    <<"#", "1", "2">>, <<"z", "z", "z">> }

KeyNames == <<"k1", "k2", "k3", "k4", "k5", "k6">>

\* The entries Object.entries(json) yields for a palette.json of n colours;
\* every second entry is premium.
FetchedPalettes ==
  UNION {{[i \in 1..n |-> [key |-> KeyNames[i], hex |-> hexes[i],
                           isPremium |-> (i % 2 = 0)]] :
            hexes \in [1..n -> PaletteHexes]} : n \in 1..MaxKeys}

PaletteInit ==
  /\ Idle
  /\ \E entries \in FetchedPalettes :
       call = [op |-> "palette.json", entries |-> entries]

\* The palette fetched at mount arrives: every key is selected.
LoadFetchedPalette ==
  /\ call.op = "palette.json"
  /\ paletteEntries = <<>>
  /\ paletteEntries' = call.entries
  /\ selectedKeys' = KeysOf(call.entries)
  /\ effectPending' = TRUE
  /\ UNCHANGED <<workerVars, pendingBlobs, inbox, outbox, now, jobId,
                 blockSize, bitmap, result, isProcessing, colorizeEnabled,
                 historyVars, call>>

PaletteNext ==
  \/ LoadFetchedPalette
  \/ onToggleKey
  \/ onSelectAll
  \/ RerunEffect

PaletteSpec == PaletteInit /\ [][PaletteNext]_vars

\* ---- one image is loaded and no control is touched afterwards
LoadImage == bitmap = Null /\ handleFile

\* nsent, jobIds, emitted and lastResult record the requests for the
\* properties and are read by no handler.  Once no message is in flight what
\* they record is dropped, so that an exchange that goes on is not cut off
\* after MaxSent messages.
ForgetHistory ==
  /\ inbox = <<>>
  /\ outbox = <<>>
  /\ nsent > 0
  /\ nsent' = 0
  /\ jobIds' = <<>>
  /\ emitted' = <<>>
  /\ lastResult' = Null
  /\ UNCHANGED <<workerVars, pendingBlobs, inbox, outbox, now, clientVars,
                 call>>

LoadNext ==
  \/ LoadPalette
  \/ LoadImage
  \/ RerunEffect
  \/ handle
  \/ OnProcess
  \/ ForgetHistory

\* ENABLED <<RerunEffect>>_vars, written out.
RerunEffectEnabled ==
  effectPending /\ (bitmap # Null /\ result # Null => CanPost)

\* WF_vars(RerunEffect): React runs an effect that is pending.
FairRerunEffect ==
  <>[]RerunEffectEnabled => []<><<RerunEffect>>_vars

\* The event loops of the page and of the worker deliver a posted message.
LoadSpec ==
  /\ Init
  /\ [][LoadNext]_vars
  /\ FairRerunEffect
  /\ WF_vars(handle)
  /\ WF_vars(OnProcess)
  /\ WF_vars(ForgetHistory)

\* ------------------------------------------------------------- deltaE00
\* Numbers are fixed-point: Lab coordinates, lengths, weights, sines and
\* cosines in hundredths, angles in half degrees. The Math functions are
\* integer approximations that keep the zeros, the signs and the symmetries
\* of the functions they stand for.
Unit == 100         \* the number 1
PI == 360           \* Math.PI

abs(x) == IF x < 0 THEN -x ELSE x

sign(x) == IF x > 0 THEN 1 ELSE IF x < 0 THEN -1 ELSE 0

RECURSIVE FloorSqrt(_)
FloorSqrt(n) ==
  IF n < 2 THEN n
  ELSE LET s == 2 * FloorSqrt(n \div 4)
       IN IF (s + 1) * (s + 1) <= n THEN s + 1 ELSE s

\* Math.sqrt of a product of two numbers: NaN below 0.
sqrt(n) == IF n < 0 THEN NaN ELSE FloorSqrt(n)

hypot(x, y) == FloorSqrt(x * x + y * y)

\* Math.atan2 in -PI..PI, a whole number of degrees; atan2(0, 0) = 0.
atan2(y, x) ==
  LET quadrant(p, q) ==
        IF p = 0 THEN 0
        ELSE IF q >= p THEN 2 * ((45 * p) \div q)
        ELSE PI \div 2 - 2 * ((45 * q) \div p)
      upper(p, q) ==
        IF q >= 0 THEN quadrant(p, q) ELSE PI - quadrant(p, -q)
  IN IF y >= 0 THEN upper(y, x) ELSE -upper(-y, x)

\* Math.sin: 4 x (180 - x) / (40500 - x (180 - x)) for x degrees in 0..180,
\* odd and of period 2 PI.
sin(x) ==
  LET r == x % (2 * PI)
      half(t) == (4 * Unit * t * (PI - t)) \div (162000 - t * (PI - t))
  IN IF r < PI THEN half(r) ELSE -half(r - PI)

cos(x) == sin(x + PI \div 2)

\* Math.exp of a number that is 0 or less: 1 / (1 + v + v^2 / 2) at -v.
exp(u) ==
  (Unit * Unit * Unit) \div (Unit * Unit - Unit * u + (u * u) \div 2)

\* c ** 7 / (c ** 7 + 25 ** 7), in ten-thousandths.
PowerRatio(c) ==
  LET x == (16 * c) \div (25 * Unit)
      x2 == (x * x) \div 16
      x4 == (x2 * x2) \div 16
      x7 == (((x4 * x2) \div 16) * x) \div 16
  IN Unit * Unit - (16 * Unit * Unit) \div (x7 + 16)

\* h1p, h2p: the hue angle in 0..2 PI.
huePrime(b, ap) ==
  IF atan2(b, ap) < 0 THEN atan2(b, ap) + 2 * PI ELSE atan2(b, ap)

\* Faulty variant: the cosine of half the hue difference.
dHpOfCosine(C1p, C2p, dhp) ==
  (2 * sqrt(C1p * C2p) * cos(dhp \div 2)) \div Unit

dHpOf(C1p, C2p, dhp) ==
  (2 * sqrt(C1p * C2p) * sin(dhp \div 2)) \div Unit

deltaE00(L1, a1, b1, L2, a2, b2) ==
  LET avgLp == (L1 + L2) \div 2
      C1 == hypot(a1, b1)
      C2 == hypot(a2, b2)
      avgC == (C1 + C2) \div 2
      G == (Unit - sqrt(PowerRatio(avgC))) \div 2
      a1p == ((Unit + G) * a1) \div Unit
      a2p == ((Unit + G) * a2) \div Unit
      C1p == hypot(a1p, b1)
      C2p == hypot(a2p, b2)
      avgCp == (C1p + C2p) \div 2
      h1p == huePrime(b1, a1p)
      h2p == huePrime(b2, a2p)
      dhp == IF abs(h2p - h1p) > PI
             THEN (h2p - h1p) - sign(h2p - h1p) * 2 * PI
             ELSE h2p - h1p
      dHp == dHpOf(C1p, C2p, dhp)
      dLp == L2 - L1
      dCp == C2p - C1p
      avgHp == (IF abs(h1p - h2p) > PI THEN h1p + h2p + 2 * PI
                ELSE h1p + h2p) \div 2
      T == Unit
           + (- 17 * cos(avgHp - PI \div 6)
              + 24 * cos(2 * avgHp)
              + 32 * cos(3 * avgHp + PI \div 30)
              - 20 * cos(4 * avgHp - (63 * PI) \div 180)) \div Unit
      dL2 == (avgLp - 50 * Unit) * (avgLp - 50 * Unit)
      Sl == Unit + (15 * dL2) \div (1000 * sqrt(20 * Unit * Unit + dL2))
      Sc == Unit + (45 * avgCp) \div 1000
      Sh == Unit + (15 * avgCp * T) \div (1000 * Unit)
      turn == (Unit * (avgHp - (275 * PI) \div 180)) \div ((25 * PI) \div 180)
      dTheta == (((30 * PI) \div 180) * exp(-((turn * turn) \div Unit)))
                  \div Unit
      Rc == 2 * sqrt(PowerRatio(avgCp))
      Rt == (-Rc * sin(2 * dTheta)) \div Unit
      termL == (Unit * dLp) \div Sl
      termC == (Unit * dCp) \div Sc
      termH == (Unit * dHp) \div Sh
  IN sqrt(termL * termL + termC * termC + termH * termH
          + (Rt * ((termC * termH) \div Unit)) \div Unit)

\* Lab coordinates of colours: lightness 0..100, a and b in -120..120.
Lightnesses == {k * ((100 * Unit) \div MaxLab) : k \in 0..MaxLab}

Chromaticities == {k * ((120 * Unit) \div MaxLab) : k \in -MaxLab..MaxLab}

LabColours ==
  [L : Lightnesses, a : Chromaticities, b : Chromaticities]

DeltaInit ==
  /\ Idle
  /\ \E x \in LabColours : \E y \in LabColours :
       call = [op |-> "arguments", L1 |-> x.L, a1 |-> x.a, b1 |-> x.b,
               L2 |-> y.L, a2 |-> y.a, b2 |-> y.b, value |-> Null]

ApplyDeltaE00 ==
  /\ call.op = "arguments"
  /\ call' = [call EXCEPT !.op = "deltaE00",
                !.value = Some(deltaE00(call.L1, call.a1, call.b1,
                                        call.L2, call.a2, call.b2))]
  /\ UNCHANGED <<workerVars, pendingBlobs, inbox, outbox, now, clientVars,
                 historyVars>>

DeltaNext == ApplyDeltaE00

DeltaSpec == DeltaInit /\ [][DeltaNext]_vars

\* ------------------------------------------------------------ properties
\* The step is the worker handling a message of the given type.
Handles(type) == Pending(type) /\ inbox' = Tail(inbox)

\* The step posts a result.
EmitsResult == emitted' # emitted

\* The result the step posts.
NewResult == outbox'[Len(outbox')]

\* n is the number of tiles of edge b that cover a length len:
\* max(1, ceil(len / b)), stated without division.
IsTileCount(n, len, b) ==
  /\ n >= 1
  /\ n * b >= len
  /\ n = 1 \/ (n - 1) * b < len

\* C1: when a process request B is already waiting behind request A, no
\* result is posted for A (last-submitted-wins).
C1_LastSubmittedWins ==
  [][EmitsResult =>
       \A i \in 1..Len(inbox') : inbox'[i].type # "process"]_vars

\* C2: when cancel{J} is already waiting behind process{J}, no result is
\* posted for J.
C2_CancelSuppressesResult ==
  [][EmitsResult =>
       \A i \in 1..Len(inbox') :
         ~(inbox'[i].type = "cancel" /\ inbox'[i].jobId = NewResult.jobId)]_vars

\* C3: a process request that posts no result leaves the session state (last
\* source image, block size, palette, colorize flag, variant flag, last
\* completed job id) unchanged.
C3_SessionChangedOnlyOnEmission ==
  [][(Handles("process") /\ ~EmitsResult) => UNCHANGED sessionVars]_vars

\* C4: every result is posted for the process request being handled, whose
\* job id is the active id when the result is posted: not for a request
\* superseded by a later process message or cleared by a cancel.
C4_ResultIsForActiveJob ==
  [][EmitsResult =>
       /\ Handles("process")
       /\ NewResult.type = "result"
       /\ NewResult.request = Head(inbox).request
       /\ NewResult.jobId = Head(inbox).jobId
       /\ activeJobId' = Some(NewResult.jobId)]_vars

C4_Witness ==
  /\ Len(emitted) >= 2
  /\ activeJobId = Some(Get(lastResult).jobId)
  /\ \E i \in 1..Len(outbox) : outbox[i].jobId # Get(lastResult).jobId

\* C5: a generateBlob{J} request starts an export only if J is the last
\* emitted job id (the worker's lastRenderedJobId, which is the job id of the
\* last result posted) and a source image and a block size are in session state;
\* otherwise it posts nothing and changes no worker state.  A blob message
\* is posted only for an export started that way.
C5_ExportOnlyForLastEmitted ==
  [][/\ Len(pendingBlobs') > Len(pendingBlobs) =>
          /\ Handles("generateBlob")
          /\ pendingBlobs'[Len(pendingBlobs')].jobId = Head(inbox).jobId
          /\ lastRenderedJobId = Some(Head(inbox).jobId)
          /\ lastResult # Null
          /\ Get(lastResult).jobId = Head(inbox).jobId
          /\ lastSourceBitmap # Null
          /\ lastBlockSize # Null
     /\ (Handles("generateBlob") /\ ~(/\ lastRenderedJobId = Some(Head(inbox).jobId)
                                      /\ lastSourceBitmap # Null
                                      /\ lastBlockSize # Null)) =>
          UNCHANGED <<workerVars, pendingBlobs, outbox>>
     /\ (Len(outbox') > Len(outbox) /\ outbox'[Len(outbox')].type = "blob") =>
          \E i \in 1..Len(pendingBlobs) :
            /\ pendingBlobs[i] = outbox'[Len(outbox')]
            /\ pendingBlobs' = Remove(pendingBlobs, i)]_vars

C5_Witness ==
  /\ \E i \in 1..Len(outbox) : outbox[i].type = "blob"
  /\ inbox # <<>> /\ Head(inbox).type = "generateBlob"
  /\ lastRenderedJobId # Some(Head(inbox).jobId)

\* C6: the export started for job J is rendered from the parameters that
\* produced J's emitted result.
C6_ExportUsesJobParameters ==
  [][Len(pendingBlobs') > Len(pendingBlobs) =>
       /\ lastResult # Null
       /\ Get(lastResult).jobId = pendingBlobs'[Len(pendingBlobs')].jobId
       /\ Get(lastResult).bitmap = pendingBlobs'[Len(pendingBlobs')].blob]_vars

\* C7: no process request has two results posted for it.
C7_AtMostOneResultPerRequest ==
  /\ \A i, j \in 1..Len(emitted) : i # j => emitted[i] # emitted[j]
  /\ \A i \in 1..Len(emitted) : emitted[i] \in 1..Len(jobIds)

C7_Witness ==
  /\ Len(emitted) >= 2
  /\ nsent = MaxSent
  /\ inbox = <<>>

\* C10: the result posted for a process request carries the request's job id
\* and block size, outWidth = tilesX, outHeight = tilesY, totalPixels =
\* tilesX * tilesY, where tilesX x tilesY is the tile grid of the source image
\* used for the job (the one the request carries, else the last one supplied).
C10_ResultMeta ==
  [][EmitsResult =>
       LET msg == Head(inbox)
           source == Get(IF msg.bitmap # Undefined THEN msg.bitmap
                         ELSE lastSourceBitmap)
           meta == NewResult.meta
       IN /\ NewResult.jobId = msg.jobId
          /\ meta.blockSize = msg.blockSize
          /\ IsTileCount(meta.tilesX, source.width, msg.blockSize)
          /\ IsTileCount(meta.tilesY, source.height, msg.blockSize)
          /\ meta.outWidth = meta.tilesX
          /\ meta.outHeight = meta.tilesY
          /\ meta.totalPixels = meta.tilesX * meta.tilesY]_vars

C10_Witness ==
  \E i \in 1..Len(outbox) :
    /\ outbox[i].type = "result"
    /\ outbox[i].meta.tilesX = 3
    /\ outbox[i].meta.tilesY = 2
    /\ outbox[i].meta.totalPixels = 6
    /\ outbox[i].meta.blockSize = 2

\* C8: no two process requests posted by startProcess carry the same job id.
C8_DistinctJobIds ==
  \A i, j \in 1..Len(jobIds) : i # j => jobIds[i] # jobIds[j]

\* C9: computeTilesDimension(W, H, b) is max(1, ceil(W / b)) by
\* max(1, ceil(H / b)) for positive W, H, b, hence at least 1 x 1.
C9_TilesDimension ==
  call.op = "computeTilesDimension" =>
    /\ IsTileCount(Get(call.value).tilesX, call.width, call.blockSize)
    /\ IsTileCount(Get(call.value).tilesY, call.height, call.blockSize)

C9_Witness ==
  /\ call.op = "computeTilesDimension"
  /\ call.width = 5 /\ call.height = 32 /\ call.blockSize = 2
  /\ call.value = Some([tilesX |-> 3, tilesY |-> 16])

\* Squared Euclidean distance over (R, G, B) between the pixel at offset i
\* of d and the palette entry at offset p.
RgbDistance(d, i, palette, p) ==
  LET sq(x) == x * x
  IN sq(At(palette, p + CHANNEL_R) - At(d, i + CHANNEL_R))
     + sq(At(palette, p + CHANNEL_G) - At(d, i + CHANNEL_G))
     + sq(At(palette, p + CHANNEL_B) - At(d, i + CHANNEL_B))

\* The pixel at offset i of out carries the four channels of the palette
\* entry at offset p.
IsEntry(out, i, palette, p) ==
  \A c \in {CHANNEL_R, CHANNEL_G, CHANNEL_B, CHANNEL_A} :
    At(out, i + c) = At(palette, p + c)

\* C11: the classic mapper gives every pixel whose alpha is not 0 the RGBA
\* of the palette entry at minimal squared RGB distance from it, the one of
\* lowest index among the entries at that distance.
C11_ClassicNearestLowestIndex ==
  (call.op = "mapImageDataToPaletteClassic"
     /\ Len(call.palette) >= RGBA_STRIDE) =>
    \A i \in Offsets(call.d) :
      At(call.d, i + CHANNEL_A) # TRANSPARENT_ALPHA =>
        \E p \in Offsets(call.palette) :
          /\ \A q \in Offsets(call.palette) :
               /\ RgbDistance(call.d, i, call.palette, p)
                    <= RgbDistance(call.d, i, call.palette, q)
               /\ q < p => RgbDistance(call.d, i, call.palette, p)
                             < RgbDistance(call.d, i, call.palette, q)
          /\ IsEntry(Get(call.value), i, call.palette, p)

\* A half-transparent pixel midway between two palette entries of different
\* colour has been given the first one.
C11_Witness ==
  /\ call.op = "mapImageDataToPaletteClassic"
  /\ call.d = <<1, 0, 0, 128>>
  /\ call.palette = <<2, 0, 0, 255, 0, 0, 0, 255>>
  /\ call.value = Some(<<2, 0, 0, 255>>)

\* C12: a pixel whose alpha is 0 keeps its four channels under both
\* mappers, whatever the palette.
C12_TransparentPixelsUnchanged ==
  call.op \in {"mapImageDataToPaletteClassic", "main mapping",
               "mapImageDataToPalette"} =>
    \A i \in Offsets(call.d) :
      At(call.d, i + CHANNEL_A) = TRANSPARENT_ALPHA =>
        \A c \in {CHANNEL_R, CHANNEL_G, CHANNEL_B, CHANNEL_A} :
          At(call.out, i + c) = At(call.d, i + c)

\* The perceptual mapper has returned from a grid whose first pixel is
\* transparent with a colour of its own, and has recoloured the second.
C12_Witness ==
  /\ call.op = "mapImageDataToPalette"
  /\ call.d = <<1, 0, 0, 0, 1, 0, 0, 128>>
  /\ call.palette = <<2, 0, 0, 255>>
  /\ call.value = Some(<<1, 0, 0, 0, 2, 0, 0, 255>>)

\* The process message being handled carries no palette, or one shorter
\* than an RGBA entry.
NoUsablePalette(msg) ==
  msg.palette = Undefined \/ Len(Get(msg.palette)) < RGBA_STRIDE

\* C14: a process request whose palette is absent or shorter than one RGBA
\* entry is rendered without colour mapping, even with colorize enabled: the
\* result it emits is the downsampled tile grid of its source and block
\* size, and no palette is kept for the session.
C14_NoPaletteNoMapping ==
  [][(Handles("process") /\ NoUsablePalette(Head(inbox))) =>
       /\ lastPalette' = Null
       /\ EmitsResult =>
            /\ NewResult.jobId = Head(inbox).jobId
            /\ NewResult.bitmap.mapper = "none"
            /\ NewResult.bitmap.palette = Null
            /\ NewResult.bitmap.source = Get(lastSourceBitmap').name
            /\ NewResult.bitmap.blockSize = Head(inbox).blockSize]_vars

\* Results have been emitted, with colorize enabled, for a request without
\* palette that follows one with a palette, and for one whose palette has
\* three integers.
C14_Witness ==
  /\ Len(outbox) = 3
  /\ outbox[1].bitmap.mapper = "classic"
  /\ outbox[2].type = "result" /\ outbox[2].bitmap.mapper = "none"
  /\ outbox[2].meta.blockSize = 16
  /\ outbox[3].type = "result" /\ outbox[3].bitmap.mapper = "none"
  /\ outbox[3].meta.blockSize = 2
  /\ lastColorizeEnabled /\ lastPalette = Null

\* The characters of str between its surrounding white space, without a
\* leading #.
HexBody(str) ==
  IF trim(str) # <<>> /\ Head(trim(str)) = "#" THEN Tail(trim(str))
  ELSE trim(str)

\* str is "transparent" in any case, or n hexadecimal digits after an
\* optional #.
IsTransparentLiteral(str) == toLowerCase(str) = Transparent

IsHexForm(str, n) ==
  /\ Len(HexBody(str)) = n
  /\ \A i \in 1..n : IsHexDigit(HexBody(str)[i])

\* C15: a colour string that is neither "transparent" nor three or six
\* hexadecimal digits after an optional # yields null and adds nothing to
\* the flattened palette.
C15_MalformedYieldsNoEntry ==
  (call.op = "hexToRgbaComponents"
     /\ ~IsTransparentLiteral(call.hex)
     /\ ~IsHexForm(call.hex, HEX_TRIPLET_LEN)
     /\ ~IsHexForm(call.hex, HEX_SIX_LEN)) =>
    call.value = Null /\ call.palette = <<>>

\* C16: "transparent" parses to (0, 0, 0, 0), three hexadecimal digits to
\* each digit doubled with alpha 255, six hexadecimal digits to their three
\* byte pairs with alpha 255, a leading # being optional.
C16_HexForms ==
  call.op = "hexToRgbaComponents" =>
    LET h == HexBody(call.hex)
        v(i) == DigitValue(h[i])
    IN /\ call.hex = Transparent => call.value = Some(<<0, 0, 0, 0>>)
       /\ IsHexForm(call.hex, 3) =>
            call.value = Some(<<17 * v(1), 17 * v(2), 17 * v(3), 255>>)
       /\ IsHexForm(call.hex, 6) =>
            call.value = Some(<<16 * v(1) + v(2), 16 * v(3) + v(4),
                                16 * v(5) + v(6), 255>>)

\* "f00" has been parsed to (255, 0, 0, 255).
C16_Witness ==
  /\ call.op = "hexToRgbaComponents"
  /\ call.hex = <<"f", "0", "0">>
  /\ call.value = Some(<<255, 0, 0, 255>>)

\* C17: every process request the route component has posted carries an
\* integer block size between 1 and 32.
C17_BlockSizeInRange ==
  \A i \in 1..Len(inbox) :
    inbox[i].type = "process" => inbox[i].blockSize \in 1..32

\* Requests are waiting with the default block size and with the largest
\* one the slider commits.
C17_Witness ==
  /\ Len(inbox) = 2
  /\ inbox[1].type = "process" /\ inbox[1].blockSize = DEFAULT_BLOCK_SIZE
  /\ inbox[2].type = "process" /\ inbox[2].blockSize = 32

\* C18: when a process request that has a source image emits nothing, which
\* happens when getContext('2d') returns null, the handler returns without
\* posting anything, the last emitted job id is unchanged, and the session
\* still holds the source image and block size a generateBlob for that job
\* needs.
C18_NoSurfaceNoEmission ==
  [][(/\ Handles("process")
      /\ Head(inbox).bitmap # Undefined \/ lastSourceBitmap # Null
      /\ ~EmitsResult) =>
       /\ outbox' = outbox
       /\ lastRenderedJobId' = lastRenderedJobId
       /\ lastRenderedJobId # Null =>
            lastSourceBitmap' # Null /\ lastBlockSize' # Null]_vars

\* Job 1 was emitted with block size 16, the request for job 2 with block
\* size 2 emitted nothing on the same image, and a generateBlob for job 1
\* handled after it has posted its blob.
C18_Witness ==
  /\ jobIds = <<1, 2>>
  /\ emitted = <<1>>
  /\ Len(outbox) = 2
  /\ outbox[1].type = "result" /\ outbox[1].jobId = 1
  /\ outbox[1].meta.blockSize = 16
  /\ outbox[2].type = "blob" /\ outbox[2].jobId = 1
  /\ outbox[2].blob.blockSize = 2
  /\ lastRenderedJobId = Some(1)

\* The palette indices a shortlist holds.
Shortlisted(top) ==
  {At(top.idx, k) : k \in {j \in 0..(K_SHORTLIST - 1) : At(top.idx, j) >= 0}}

\* C19: after the shortlist pass over n entries the shortlist holds
\* min(8, n) distinct palette indices, and no entry left out is at a
\* strictly smaller raw distance than an entry it holds.
C19_ShortlistHoldsSmallest ==
  call.op = "shortlist" =>
    LET n == Len(call.base)
        inside == Shortlisted(call.top)
        slots == {k \in 0..(K_SHORTLIST - 1) : At(call.top.idx, k) >= 0}
    IN /\ inside \subseteq 0..(n - 1)
       /\ Cardinality(slots) = (IF n < K_SHORTLIST THEN n ELSE K_SHORTLIST)
       /\ Cardinality(inside) = Cardinality(slots)
       /\ \A pi \in inside : \A po \in (0..(n - 1)) \ inside :
            At(call.base, po) >= At(call.base, pi)

\* The adjusted cost of palette entry pi for the pixel whose Lab values are
\* labs: raw distance plus lightness, chroma and hue penalties and neutral
\* bias.
AdjustedCost(labs, pi) ==
  At(labs, pi).base + At(labs, pi).Lpen + At(labs, pi).Cpen
    + At(labs, pi).Hpen + At(labs, pi).neutralBias

\* C20: a pixel whose alpha is not 0 is overwritten, alpha included, with
\* the RGBA of a shortlisted palette entry whose adjusted cost is minimal
\* among the shortlisted entries.
C20_MinimalAdjustedCost ==
  (call.op = "main mapping" /\ call.labs # <<>>) =>
    /\ call.bestPi \in Shortlisted(call.top)
    /\ \A c \in {CHANNEL_R, CHANNEL_G, CHANNEL_B, CHANNEL_A} :
         At(call.out, (call.idx - 1) * RGBA_STRIDE + c)
           = At(call.palette, call.bestPi * RGBA_STRIDE + c)
    /\ \A pi \in Shortlisted(call.top) :
         AdjustedCost(call.labs, call.bestPi) <= AdjustedCost(call.labs, pi)

\* C21: with a palette of exactly one entry, every pixel whose alpha is not
\* 0 ends with the RGBA of that entry, under the classic and under the
\* perceptual mapper.
C21_SingleEntryPalette ==
  (call.op \in {"mapImageDataToPaletteClassic", "mapImageDataToPalette"}
     /\ Len(call.palette) = RGBA_STRIDE) =>
    \A i \in Offsets(call.d) :
      At(call.d, i + CHANNEL_A) # TRANSPARENT_ALPHA =>
        IsEntry(Get(call.value), i, call.palette, 0)

\* The perceptual mapper has returned from an opaque and a half-transparent
\* pixel and the palette of "#000" alone.
C21_Witness ==
  /\ call.op = "mapImageDataToPalette"
  /\ call.d = <<0, 0, 0, 255, 1, 0, 0, 128>>
  /\ call.palette = <<0, 0, 0, 255>>
  /\ call.value = Some(<<0, 0, 0, 255, 0, 0, 0, 255>>)

\* Positions in paletteEntries of the selected entries for which
\* hexToRgbaComponents returns a quadruple.
ParsedSelected ==
  {i \in 1..Len(paletteEntries) :
     /\ \E j \in 1..Len(selectedKeys) : selectedKeys[j] = paletteEntries[i].key
     /\ hexToRgbaComponents(paletteEntries[i].hex) # Null}

\* Positions in paletteEntries of the selected entries whose colour string
\* is "transparent" or three or six hexadecimal digits after an optional #.
UsableSelected ==
  {i \in 1..Len(paletteEntries) :
     /\ \E j \in 1..Len(selectedKeys) : selectedKeys[j] = paletteEntries[i].key
     /\ \/ IsTransparentLiteral(paletteEntries[i].hex)
        \/ IsHexForm(paletteEntries[i].hex, HEX_TRIPLET_LEN)
        \/ IsHexForm(paletteEntries[i].hex, HEX_SIX_LEN)}

\* arr holds one RGBA quadruple for each entry at a position in chosen, in
\* the order of the palette definition, and nothing else.
IsConcatenation(arr, chosen) ==
  /\ Len(arr) % 4 = 0
  /\ Len(arr) = 4 * Cardinality(chosen)
  /\ \A i \in chosen : \A c \in 1..4 :
       arr[4 * Cardinality({j \in chosen : j < i}) + c]
         = Get(hexToRgbaComponents(paletteEntries[i].hex))[c]

\* The flattened palette is the concatenation over the selected entries that
\* hexToRgbaComponents parses, whatever the order of selectedKeys.
FlattenedPaletteOfParsed ==
  IsConcatenation(selectedPaletteArray, ParsedSelected)

\* C22: the flattened palette holds one RGBA quadruple for each selected
\* entry that has a usable colour, in the order of the palette definition
\* and nothing else, whatever the order of selectedKeys; its length is a
\* multiple of 4.
C22_FlattenedPalette ==
  IsConcatenation(selectedPaletteArray, UsableSelected)

\* C23: deltaE00 of a Lab colour with itself is 0.
C23_DeltaOfSelfIsZero ==
  (/\ call.op = "deltaE00"
   /\ call.L1 = call.L2 /\ call.a1 = call.a2 /\ call.b1 = call.b2) =>
    call.value = Some(0)

\* A coloured argument whose hue angle is below 0 before it is turned.
C23_Witness ==
  /\ call.op = "deltaE00"
  /\ call.L1 = call.L2 /\ call.a1 = call.a2 /\ call.b1 = call.b2
  /\ call.a1 > 0 /\ call.b1 < 0 /\ call.L1 = 50 * Unit
  /\ call.value = Some(0)

\* A process request waits for the worker or its result waits for the
\* listener.
Outstanding ==
  \/ \E i \in 1..Len(inbox) : inbox[i].type = "process"
  \/ \E i \in 1..Len(outbox) : outbox[i].type = "result"

\* The re-run effect is about to submit a request.
Triggered == effectPending /\ bitmap # Null /\ result # Null

\* C24: after the image is loaded, with no further input, the exchange
\* reaches a state with no request outstanding and none being triggered by
\* an arrived result.
C24_EventuallyQuiet == (bitmap # Null) ~> (~Outstanding /\ ~Triggered)

\* C25: a blob message for job J is posted only while J is the last emitted
\* job.
C25_BlobForLastEmittedJob ==
  [][(/\ Len(outbox') = Len(outbox) + 1
      /\ outbox'[Len(outbox')].type = "blob") =>
       lastRenderedJobId = Some(outbox'[Len(outbox')].jobId)]_vars

\* C26: whenever isProcessing is false, no process request of the client
\* awaits its result.
C26_IdleMeansNothingOutstanding == ~isProcessing => ~Outstanding

\* Every process request the client submitted has been answered and the
\* answer has reached the listener.
AllAnswered ==
  /\ jobIds # <<>>
  /\ ~Outstanding
  /\ \A r \in 1..Len(jobIds) : \E i \in 1..Len(emitted) : emitted[i] = r

\* C27: results are emitted, and wait for the listener, in the order in which
\* their requests were submitted, and once no request is outstanding the
\* displayed result is the one emitted for the most recently submitted
\* request.
C27_ResultsInSubmissionOrder ==
  /\ \A i, j \in 1..Len(emitted) : i < j => emitted[i] < emitted[j]
  /\ \A i, j \in 1..Len(outbox) :
       (i < j /\ outbox[i].type = "result" /\ outbox[j].type = "result") =>
         outbox[i].request < outbox[j].request
  /\ AllAnswered =>
       /\ Get(lastResult).request = Len(jobIds)
       /\ result = Some([bitmap |-> Get(lastResult).bitmap,
                         meta |-> Get(lastResult).meta])

\* Three requests are answered; the last one was submitted with another
\* block size than the first.
C27_Witness ==
  /\ AllAnswered
  /\ Len(jobIds) = 3
  /\ Get(result).meta.blockSize # DEFAULT_BLOCK_SIZE

\* The source a request is rendered from: its own bitmap, or the one most
\* recently supplied before it.
SuppliedSource(msg) ==
  IF msg.bitmap # Undefined THEN Get(msg.bitmap) ELSE Get(lastSourceBitmap)

\* The value of a flag of a request: true when the request omits it.
FlagOf(flag) == flag = Undefined \/ Get(flag)

\* C28: the pixels and the meta of a result are a function of the request's
\* own blockSize, colorizeEnabled, advancedColorize and palette and of the
\* most recently supplied source: an omitted flag counts as true, an omitted
\* palette as no colour mapping, whatever the requests before were.
C28_ResultOfRequestAlone ==
  [][(Handles("process") /\ EmitsResult) =>
       LET msg == Head(inbox)
           src == SuppliedSource(msg)
           mapped == FlagOf(msg.colorizeEnabled) /\ ~NoUsablePalette(msg)
       IN /\ NewResult.bitmap.source = src.name
          /\ NewResult.bitmap.blockSize = msg.blockSize
          /\ IsTileCount(NewResult.bitmap.width, src.width, msg.blockSize)
          /\ IsTileCount(NewResult.bitmap.height, src.height, msg.blockSize)
          /\ NewResult.bitmap.mapper =
               IF ~mapped THEN "none"
               ELSE IF FlagOf(msg.advancedColorize) THEN "perceptual"
               ELSE "classic"
          /\ NewResult.bitmap.palette =
               IF mapped THEN Some(Uint8ClampedArray(Get(msg.palette)))
               ELSE Null
          /\ NewResult.meta =
               [outWidth |-> NewResult.bitmap.width,
                outHeight |-> NewResult.bitmap.height,
                tilesX |-> NewResult.bitmap.width,
                tilesY |-> NewResult.bitmap.height,
                totalPixels |->
                  NewResult.bitmap.width * NewResult.bitmap.height,
                blockSize |-> msg.blockSize]]_vars

\* After a request with a palette and advancedColorize false, a request
\* without palette and one without flags have been answered.
C28_Witness ==
  /\ Len(outbox) = 3
  /\ outbox[1].bitmap.mapper = "classic"
  /\ outbox[2].bitmap.mapper = "none"
  /\ outbox[2].bitmap.blockSize = 16
  /\ outbox[3].bitmap.mapper = "perceptual"

\* C29: a cancel message changes at most the active-id marker, and only
\* when it names the active id: the session state, the pending exports and
\* the posted messages are unchanged, and a cancel for another id changes
\* nothing.
C29_CancelFrame ==
  [][Handles("cancel") =>
       /\ UNCHANGED <<sessionVars, pendingBlobs, outbox, emitted, lastResult>>
       /\ IF activeJobId = Some(Head(inbox).jobId)
          THEN activeJobId' = Null
          ELSE activeJobId' = activeJobId]_vars

\* A cancel has cleared the marker of a job whose result was emitted; the
\* session state of that job is still there.
C29_Witness ==
  /\ activeJobId = Null
  /\ lastRenderedJobId # Null
  /\ lastSourceBitmap # Null
  /\ lastPalette # Null
  /\ Len(outbox) = 1
  /\ nsent = 2

\* C30: the classic mapper applied with the same palette to its own output
\* changes no pixel, for every buffer and every palette with an entry.
C30_ClassicIdempotent ==
  (/\ call.op = "mapImageDataToPaletteClassic twice"
   /\ Len(call.palette) >= RGBA_STRIDE) =>
    Get(call.value) = call.out

\* Two entries have the colour of the pixel and differ in alpha: the first
\* call makes the opaque pixel transparent, the second leaves it.
C30_Witness ==
  /\ call.op = "mapImageDataToPaletteClassic twice"
  /\ call.palette = <<0, 0, 0, 0, 0, 0, 0, 255>>
  /\ call.d = <<0, 0, 0, 255>>
  /\ call.out = <<0, 0, 0, 0>>
  /\ call.value = Some(call.out)

====
